---- MODULE Spec2Model ----
(***************************************************************************)
(* Discovery-to-delivery pipeline of the video upload automation:          *)
(*   core/upload_manager.py  (UploadManager: queue, runs, worker pool)     *)
(*   core/status_tracker.py  (StatusTracker: marker files)                 *)
(*   core/file_manager.py    (FileInfo, FileManager: folder scan)          *)
(*   core/folder_watcher.py  (VideoFileHandler: debounce timers)           *)
(*   gui/main_tab.py         (MainTab: callers of the orchestrator)        *)
(***************************************************************************)
EXTENDS Integers, Sequences, FiniteSets, Bags, TLC

(***************************************************************************)
(* Bounds of the model.                                                    *)
(***************************************************************************)
MaxItems == 2
\* FileInfo objects created in one behaviour

MaxRuns == 2
\* _process_upload_queue threads started in one behaviour

MaxAborts == 1
\* abort_all calls in one behaviour

MaxCallers == 2
\* upload_worker threads inside add_to_queue/start_uploads at one time

MaxConcurrent == 1
\* UploadManager(max_concurrent=...), read from the settings by the application

MaxTimers == 2
\* debounce timers armed by the watcher in one behaviour

MaxSize == 2
\* largest file size, in blocks

max_attempts == 10
\* MainTab.schedule_recheck: max_attempts

MaxNameLen == 4
\* longest filename given to the target derivation, in characters
MaxMtime == 2
\* modification times of the files of a folder range over 1..MaxMtime

(***************************************************************************)
(* Files on disk.  A path is a record of its parent directory, stem and    *)
(* extension; names are sequences of characters so that the "001" test is  *)
(* a real substring test.                                                  *)
(***************************************************************************)
FileTable ==
    << [dir |-> "CloudFlare", stem |-> <<"a", "0", "0", "1">>, ext |-> <<"m", "p", "4">>],
       [dir |-> "CloudFlare", stem |-> <<"a", "0", "0", "1">>, ext |-> <<"m", "o", "v">>] >>

Files == DOMAIN FileTable

Items == 1..MaxItems

Runs == 1..MaxRuns

Range(s) == {s[k] : k \in DOMAIN s}

\* os.path.basename / Path.name: stem + "." + extension
Filename(f) == FileTable[f].stem \o <<".">> \o FileTable[f].ext

\* FileManager.scan_folders: the folder type is that of the scanned directory
FolderTypeOfDir(d) ==
    CASE d = "CloudFlare" -> "cloudflare"
      [] d = "Pinterest" -> "pinterest"
      [] d = "YouTube Shorts" -> "youtube_shorts"
      [] OTHER -> "unknown"

\* a faulty substring test, which looks at the start of the name only
StartsWith001(name) ==
    Len(name) >= 3 /\ name[1] = "0" /\ name[2] = "0" /\ name[3] = "1"

\* '001' in filename
Contains001(name) ==
    \E k \in 1..(Len(name) - 2) :
        name[k] = "0" /\ name[k + 1] = "0" /\ name[k + 2] = "1"

\* FileManager._determine_platforms(filename, folder_type)
DeterminePlatforms(name, folder_type) ==
    CASE folder_type = "cloudflare" ->
            IF Contains001(name)
            THEN <<"cloudflare", "facebook", "youtube">>
            ELSE <<"cloudflare", "facebook">>
      [] folder_type = "pinterest" -> <<"pinterest">>
      [] folder_type = "youtube_shorts" -> <<"youtube_shorts">>
      [] OTHER -> <<>>

\* the fields of the dataclass FileInfo: none has a default
FileInfoFields ==
    {"path", "filename", "folder_type", "title", "description",
     "short_description", "platforms"}

\* FileInfo(**kwargs) returns an object; it raises TypeError when a field is
\* missing
FileInfoConstructs(kwargs) == kwargs = FileInfoFields

\* the keyword arguments of FileManager._create_file_info
ScanKwargs ==
    {"path", "filename", "folder_type", "title", "description",
     "short_description", "platforms"}

\* the keyword arguments of MainTab.create_file_info
CreateFileInfoKwargs ==
    {"path", "filename", "title", "description", "short_description",
     "platforms"}

\* the keyword arguments of UploadManager.add_single_file
AddSingleFileKwargs ==
    {"path", "filename", "title", "description", "short_description",
     "platforms"}

\* UploadManager._get_target_platforms_for_folder(folder_type, filename)
GetTargetPlatformsForFolder(folder_type, filename) ==
    IF folder_type = "cloudflare"
    THEN IF Contains001(filename)
         THEN <<"cloudflare", "facebook">> \o <<"youtube">>
         ELSE <<"cloudflare", "facebook">>
    ELSE IF folder_type = "pinterest" THEN <<"pinterest">>
    ELSE IF folder_type = "youtube_shorts" THEN <<"youtube_shorts">>
    ELSE <<>>

\* a faulty basename, which keeps the directories of the path
WholePath(file_path) == file_path

\* os.path.basename(file_path): what follows the last separator
Basename(file_path) ==
    LET seps == {k \in 1..Len(file_path) : file_path[k] = "/"}
        last == IF seps = {} THEN 0
                ELSE CHOOSE k \in seps : \A j \in seps : j <= k
    IN  SubSeq(file_path, last + 1, Len(file_path))

\* MainTab.get_target_platforms_for_file(file_path, folder_type)
GetTargetPlatformsForFile(file_path, folder_type) ==
    LET filename == Basename(file_path)
    IN  IF folder_type = "cloudflare"
        THEN IF Contains001(filename)
             THEN <<"cloudflare", "facebook">> \o <<"youtube">>
             ELSE <<"cloudflare", "facebook">>
        ELSE IF folder_type = "pinterest" THEN <<"pinterest">>
        ELSE IF folder_type = "youtube_shorts" THEN <<"youtube_shorts">>
        ELSE <<>>

\* FileInfo.platforms of the FileInfo the folder scan builds for file f
PlatformsOfFile(f) ==
    DeterminePlatforms(Filename(f), FolderTypeOfDir(FileTable[f].dir))

(***************************************************************************)
(* StatusTracker: markers are files <parent>/<stem>_<STATE>.txt, so the    *)
(* marker set of a path is keyed by its parent directory and stem.         *)
(***************************************************************************)
\* StatusTracker.status_types, in dictionary order
StatusOrder == <<"UPLOADING", "COMPLETED", "PARTIAL", "ERROR", "CANCELLED">>

StatusTypes == Range(StatusOrder)

TerminalStates == {"COMPLETED", "PARTIAL", "ERROR", "CANCELLED"}

\* Path(file_path).parent and Path(file_path).stem
MarkerKey(f) == <<FileTable[f].dir, FileTable[f].stem>>

MarkerKeys == {MarkerKey(f) : f \in Files}

\* the paths StatusTracker is called with from outside a run: the files of
\* FileTable and a file of the same name in another folder
TrackerTable ==
    FileTable \o
    << [dir |-> "Pinterest", stem |-> <<"a", "0", "0", "1">>, ext |-> <<"m", "p", "4">>] >>

TrackerPaths == DOMAIN TrackerTable

\* Path(file_path).parent and Path(file_path).stem
PathKey(p) == <<TrackerTable[p].dir, TrackerTable[p].stem>>

TrackerKeys == {PathKey(p) : p \in TrackerPaths}

\* the sets of platform keys the settings may enable
EnabledChoices ==
    { {"cloudflare", "facebook", "youtube"},
      {"cloudflare", "facebook"},
      {"cloudflare"},
      {"pinterest"} }

VARIABLES
    upload_queue,       \* UploadManager.upload_queue: FileInfo ids, oldest first
    is_running,         \* UploadManager.is_running
    abort_requested,    \* UploadManager.abort_requested
    executor,           \* UploadManager.executor: the run whose pool it is, 0 for None
    enabled_platforms,  \* keys of UploadManager.enabled_platforms
    nextItem,           \* number of FileInfo objects created
    itemFile,           \* FileInfo.path of each FileInfo (a file of FileTable, 0 before creation)
    cAdding,            \* upload_worker threads between their first add_to_queue and start_uploads
    cChecked,           \* start_uploads calls past the is_running test, before the assignment
    nRuns,              \* _process_upload_queue threads started
    rpc,                \* position of each _process_upload_queue thread
    files_to_upload,    \* its local list files_to_upload
    submitted,          \* number of files it has submitted to its executor
    shut,               \* whether its executor has been shut down
    raised,             \* whether executor.submit raised in it
    complete,           \* 'complete' events it has sent
    nAborts,            \* abort_all calls made
    ipc,                \* position of each FileInfo in its life
    target_platforms,   \* _upload_file local: effective targets
    success_count,      \* _upload_file local
    total_platforms,    \* _upload_file local
    term,               \* state passed to the final create_status_file, "none" before
    markers,            \* the file system: marker states present for each marker key
    outcomes,           \* history: TargetOutcome.succeeded of each adapter call of the item
    atAbort,            \* history: where the item was when abort_all set the flag
    fsize,              \* the file system: size of each media file
    sidecars,           \* the file system: sidecar text files present beside each base name
    tcount,             \* threading.Timer objects created by handle_file_event
    timers,             \* each such timer: its path, its state, the first size sample
    file_timers,        \* VideoFileHandler.file_timers: the timer stored for a path, 0 for none
    processing_files,   \* VideoFileHandler.processing_files
    rechecks,           \* pending Timer(300, recheck) closures: a bag of (path, attempts)
    callback_count,     \* history: calls of the handler's callback for each path
    handed,             \* history: calls of process_single_file for each path
    recheck_count,      \* history: executions of recheck() for each path
    gave_up,            \* history: "Giving up on ..." log lines for each path
    folder_watcher,     \* MainTab.folder_watcher: "watcher" while scanning, "None" after stop_scanning
    tracker_call,       \* the last StatusTracker call made from outside a run, and its result
    derive_call,        \* a call of _get_target_platforms_for_folder: arguments and result
    call                \* an operation called on its own: arguments, position, results

ovars ==
    << upload_queue, is_running, abort_requested, executor, enabled_platforms,
       nextItem, itemFile, cAdding, cChecked, nRuns, rpc, files_to_upload,
       submitted, shut, raised, complete, nAborts, ipc, target_platforms,
       success_count, total_platforms, term, markers, outcomes, atAbort >>

wvars ==
    << fsize, sidecars, tcount, timers, file_timers, processing_files,
       rechecks, callback_count, handed, recheck_count, gave_up,
       folder_watcher >>

tvars == << tracker_call, derive_call, call >>

vars == << ovars, wvars, tvars >>

\* StatusTracker.get_file_status(path)['status'] on the marker files m: the
\* first state of status_types whose marker file exists, else PENDING
file_status(m, key) ==
    IF m[key] = {}
    THEN "PENDING"
    ELSE LET k == CHOOSE k \in DOMAIN StatusOrder :
                    /\ StatusOrder[k] \in m[key]
                    /\ \A j \in 1..(k - 1) : StatusOrder[j] \notin m[key]
         IN  StatusOrder[k]

\* a faulty cleanup, which removes nothing
NoCleanup(m, key) == m

\* a faulty cleanup, which knows three states only
CleanupThreeTypes(m, key) ==
    [m EXCEPT ![key] = @ \ {"UPLOADING", "COMPLETED", "ERROR"}]

\* the marker files after StatusTracker.cleanup_status_files(path) on m
cleanup_status_files(m, key) == [m EXCEPT ![key] = {}]

\* a faulty write, which creates no marker file
NoWrite(m, key, status) == m

\* the marker files after the write of <stem>_<status>.txt on m
write_status_file(m, key, status) == [m EXCEPT ![key] = @ \cup {status}]

\* the marker files after StatusTracker.create_status_file(path, status) on
\* m, run without interruption: cleanup, then the write
create_status_file(m, key, status) ==
    write_status_file(cleanup_status_files(m, key), key, status)

\* StatusTracker.get_file_status(path)['status']
get_file_status(key) == file_status(markers, key)

\* FileManager._has_status_file(video_path, '_' + status)
HasStatusFile(f, status) == status \in markers[MarkerKey(f)]

\* the marker files after StatusTracker.cleanup_status_files(path)
CleanedUp(key) == cleanup_status_files(markers, key)

\* the marker files after the write of create_status_file(path, status)
Written(key, status) == write_status_file(markers, key, status)

(***************************************************************************)
(* UploadManager                                                           *)
(***************************************************************************)
\* a faulty filter, which looks up youtube_shorts under its own name
GetTargetPlatformsNoAlias(platforms, enabled) ==
    SelectSeq(platforms, LAMBDA p : p \in enabled)

\* UploadManager._get_target_platforms(file_info)
GetTargetPlatforms(platforms, enabled) ==
    LET platform_key(p) == IF p = "youtube_shorts" THEN "youtube" ELSE p
    IN  SelectSeq(platforms, LAMBDA p : platform_key(p) \in enabled)

\* the adapter outcomes: a result, None, or an exception
AdapterOutcomes == {"ok", "none", "raise"}

\* UploadManager._upload_to_platform: result is not None; every exception is
\* caught by the _upload_to_<platform> wrappers and becomes False
UploadToPlatform(outcome) == outcome = "ok"

\* a faulty count, which counts every attempt as a success
CountEveryAttempt(sc, success) == sc + 1

\* _upload_file, "if success: success_count += 1"; a False result and a
\* caught exception leave the count alone
CountSuccess(sc, success) == IF success THEN sc + 1 ELSE sc

\* a faulty aggregation, which reports any success as COMPLETED
AggregateAnySuccess(sc, tp) ==
    IF sc > 0 THEN "COMPLETED" ELSE "ERROR"

\* _upload_file, "Update status based on results"
Aggregate(sc, tp) ==
    IF sc = tp THEN "COMPLETED"
    ELSE IF sc > 0 THEN "PARTIAL"
    ELSE "ERROR"

\* positions of a FileInfo inside _upload_file
Executing == {"writeU", "loop", "cleanupT", "writeT"}

ActiveRuns == {r \in Runs : rpc[r] \notin {"none", "done"}}

\* the FileInfo objects a run has handed to its executor
SubmittedItems(r) == {files_to_upload[r][k] : k \in 1..submitted[r]}

RunOf(i) == CHOOSE r \in Runs : i \in Range(files_to_upload[r])

\* state after UploadManager.__init__ and set_enabled_platforms
ManagerInit ==
    /\ upload_queue = <<>>
    /\ is_running = FALSE
    /\ abort_requested = FALSE
    /\ executor = 0
    /\ enabled_platforms \in EnabledChoices
    /\ nextItem = 0
    /\ itemFile = [i \in Items |-> 0]
    /\ cAdding = 0
    /\ cChecked = 0
    /\ nRuns = 0
    /\ rpc = [r \in Runs |-> "none"]
    /\ files_to_upload = [r \in Runs |-> <<>>]
    /\ submitted = [r \in Runs |-> 0]
    /\ shut = [r \in Runs |-> FALSE]
    /\ raised = [r \in Runs |-> FALSE]
    /\ complete = [r \in Runs |-> 0]
    /\ nAborts = 0
    /\ ipc = [i \in Items |-> "new"]
    /\ target_platforms = [i \in Items |-> <<>>]
    /\ success_count = [i \in Items |-> 0]
    /\ total_platforms = [i \in Items |-> 0]
    /\ term = [i \in Items |-> "none"]
    /\ outcomes = [i \in Items |-> <<>>]
    /\ atAbort = [i \in Items |-> "na"]

\* a folder without marker files
OInit ==
    /\ ManagerInit
    /\ markers = [k \in MarkerKeys |-> {}]

\* MainTab.upload_worker: the scan skips files with an _UPLOADING or _COMPLETED
\* marker (FileManager._scan_folder), files whose FileInfo cannot be built and
\* empty files (FileManager.validate_files),
\* each found file is put in the queue (UploadManager.add_to_queue)
AddToQueue(f) ==
    /\ nextItem < MaxItems
    /\ FileInfoConstructs(ScanKwargs)
    /\ fsize[f] > 0
    /\ ~HasStatusFile(f, "UPLOADING")
    /\ ~HasStatusFile(f, "COMPLETED")
    /\ \/ /\ cAdding > 0
          /\ UNCHANGED cAdding
       \/ /\ cAdding + cChecked < MaxCallers
          /\ cAdding' = cAdding + 1
    /\ nextItem' = nextItem + 1
    /\ itemFile' = [itemFile EXCEPT ![nextItem + 1] = f]
    /\ ipc' = [ipc EXCEPT ![nextItem + 1] = "queued"]
    /\ upload_queue' = Append(upload_queue, nextItem + 1)
    /\ UNCHANGED << is_running, abort_requested, executor, enabled_platforms,
                    cChecked, nRuns, rpc, files_to_upload, submitted, shut,
                    raised, complete, nAborts, target_platforms, success_count,
                    total_platforms, term, markers, outcomes, atAbort >>
    /\ UNCHANGED wvars
    /\ UNCHANGED tvars

\* start_uploads, "if self.is_running: return", called by upload_worker after
\* its last add_to_queue
StartUploadsCheck ==
    /\ cAdding > 0
    /\ is_running \/ nRuns + cChecked < MaxRuns
    /\ cAdding' = cAdding - 1
    /\ cChecked' = IF is_running THEN cChecked ELSE cChecked + 1
    /\ UNCHANGED << upload_queue, is_running, abort_requested, executor,
                    enabled_platforms, nextItem, itemFile, nRuns, rpc,
                    files_to_upload, submitted, shut, raised, complete, nAborts,
                    ipc, target_platforms, success_count, total_platforms,
                    term, markers, outcomes, atAbort >>
    /\ UNCHANGED wvars
    /\ UNCHANGED tvars

\* start_uploads, from "self.is_running = True" to upload_thread.start()
StartUploadsSet ==
    /\ cChecked > 0
    /\ cChecked' = cChecked - 1
    /\ is_running' = TRUE
    /\ abort_requested' = FALSE
    /\ nRuns' = nRuns + 1
    /\ rpc' = [rpc EXCEPT ![nRuns + 1] = "drain"]
    /\ UNCHANGED << upload_queue, executor, enabled_platforms, nextItem,
                    itemFile, cAdding, files_to_upload, submitted, shut,
                    raised, complete, nAborts, ipc, target_platforms,
                    success_count, total_platforms, term, markers, outcomes,
                    atAbort >>
    /\ UNCHANGED wvars
    /\ UNCHANGED tvars

itemLocals ==
    << target_platforms, success_count, total_platforms, term, outcomes >>

\* _process_upload_queue, "Get all files from queue": the queue is emptied
\* into files_to_upload; with no files the thread sends 'complete' and goes
\* to its finally block, otherwise it creates its executor and stores it in
\* self.executor
ProcessDrain(r) ==
    /\ rpc[r] = "drain"
    /\ files_to_upload' = [files_to_upload EXCEPT ![r] = upload_queue]
    /\ upload_queue' = <<>>
    /\ ipc' = [i \in Items |-> IF i \in Range(upload_queue) THEN "taken" ELSE ipc[i]]
    /\ rpc' = [rpc EXCEPT ![r] = IF upload_queue = <<>> THEN "join" ELSE "submit"]
    /\ executor' = IF upload_queue = <<>> THEN executor ELSE r
    /\ complete' = IF upload_queue = <<>> THEN [complete EXCEPT ![r] = @ + 1] ELSE complete
    /\ UNCHANGED << is_running, abort_requested, enabled_platforms, nextItem,
                    itemFile, cAdding, cChecked, nRuns, submitted, shut,
                    raised, nAborts, markers, atAbort >>
    /\ UNCHANGED itemLocals
    /\ UNCHANGED wvars
    /\ UNCHANGED tvars

\* _process_upload_queue, "Submit all upload tasks": one iteration of the loop
\* (break on abort_requested; executor.submit raises RuntimeError once the
\* executor has been shut down), or the end of the list
ProcessSubmit(r) ==
    /\ rpc[r] = "submit"
    /\ IF submitted[r] = Len(files_to_upload[r]) \/ abort_requested
       THEN /\ rpc' = [rpc EXCEPT ![r] = "join"]
            /\ UNCHANGED << submitted, ipc, raised >>
       ELSE IF shut[r]
       THEN /\ rpc' = [rpc EXCEPT ![r] = "join"]
            /\ raised' = [raised EXCEPT ![r] = TRUE]
            /\ UNCHANGED << submitted, ipc >>
       ELSE /\ submitted' = [submitted EXCEPT ![r] = @ + 1]
            /\ ipc' = [ipc EXCEPT ![files_to_upload[r][submitted[r] + 1]] = "pending"]
            /\ UNCHANGED << rpc, raised >>
    /\ UNCHANGED << upload_queue, is_running, abort_requested, executor,
                    enabled_platforms, nextItem, itemFile, cAdding, cChecked,
                    nRuns, files_to_upload, shut, complete, nAborts, markers,
                    atAbort >>
    /\ UNCHANGED itemLocals
    /\ UNCHANGED wvars
    /\ UNCHANGED tvars

\* _process_upload_queue: the as_completed loop, the exit of the with block,
\* which waits for every submitted task (shutdown(wait=True)), the 'complete'
\* event (an 'error' event instead when submit raised), and the finally
\* block: is_running = False, executor = None
ProcessJoin(r) ==
    /\ rpc[r] = "join"
    /\ \A i \in SubmittedItems(r) : ipc[i] = "done"
    /\ rpc' = [rpc EXCEPT ![r] = "done"]
    /\ shut' = [shut EXCEPT ![r] = TRUE]
    /\ complete' = IF raised[r] \/ files_to_upload[r] = <<>>
                   THEN complete
                   ELSE [complete EXCEPT ![r] = @ + 1]
    /\ is_running' = FALSE
    /\ executor' = 0
    /\ UNCHANGED << upload_queue, abort_requested, enabled_platforms, nextItem,
                    itemFile, cAdding, cChecked, nRuns, files_to_upload,
                    submitted, raised, nAborts, ipc, markers, atAbort >>
    /\ UNCHANGED itemLocals
    /\ UNCHANGED wvars
    /\ UNCHANGED tvars

\* abort_all: abort_requested = True, executor.shutdown(wait=False) (tasks
\* already submitted are not cancelled), the queue is cleared, is_running =
\* False
AbortAll ==
    /\ nAborts < MaxAborts
    /\ nAborts' = nAborts + 1
    /\ abort_requested' = TRUE
    /\ shut' = IF executor = 0 THEN shut ELSE [shut EXCEPT ![executor] = TRUE]
    /\ upload_queue' = <<>>
    /\ ipc' = [i \in Items |-> IF i \in Range(upload_queue) THEN "discarded" ELSE ipc[i]]
    /\ is_running' = FALSE
    /\ atAbort' = [i \in Items |->
                      IF atAbort[i] # "na" THEN atAbort[i]
                      ELSE IF ipc[i] \in Executing THEN "inflight"
                      ELSE IF ipc[i] \in {"taken", "pending"} THEN "waiting"
                      ELSE IF ipc[i] = "done" /\ term[i] \in TerminalStates THEN "finished"
                      ELSE "na"]
    /\ UNCHANGED << executor, enabled_platforms, nextItem, itemFile, cAdding,
                    cChecked, nRuns, rpc, files_to_upload, submitted, raised,
                    complete, markers >>
    /\ UNCHANGED itemLocals
    /\ UNCHANGED wvars
    /\ UNCHANGED tvars

managerVars ==
    << upload_queue, is_running, abort_requested, executor, enabled_platforms,
       nextItem, itemFile, cAdding, cChecked, nRuns, rpc, files_to_upload,
       submitted, shut, raised, complete, nAborts >>

\* a pool worker takes the oldest pending task of its executor (at most
\* max_concurrent workers per executor) and enters _upload_file: 'current'
\* event, then create_status_file(path, "UPLOADING") up to the end of its
\* cleanup_status_files
UploadFileBegin(i) ==
    /\ ipc[i] = "pending"
    /\ LET r == RunOf(i)
       IN  /\ \A k \in 1..submitted[r] :
                  ipc[files_to_upload[r][k]] = "pending"
                      => \E j \in 1..k : files_to_upload[r][j] = i
           /\ Cardinality({j \in SubmittedItems(r) : ipc[j] \in Executing})
                  < MaxConcurrent
    /\ ipc' = [ipc EXCEPT ![i] = "writeU"]
    /\ markers' = CleanedUp(MarkerKey(itemFile[i]))
    /\ UNCHANGED managerVars
    /\ UNCHANGED atAbort
    /\ UNCHANGED itemLocals
    /\ UNCHANGED wvars
    /\ UNCHANGED tvars

\* _upload_file: the marker file of create_status_file(path, "UPLOADING") is
\* written, then the targets are filtered; "if not target_platforms: return
\* False"
UploadFileMarkUploading(i) ==
    /\ ipc[i] = "writeU"
    /\ markers' = Written(MarkerKey(itemFile[i]), "UPLOADING")
    /\ LET tp == GetTargetPlatforms(PlatformsOfFile(itemFile[i]), enabled_platforms)
       IN  /\ target_platforms' = [target_platforms EXCEPT ![i] = tp]
           /\ ipc' = [ipc EXCEPT ![i] = IF tp = <<>> THEN "done" ELSE "loop"]
    /\ UNCHANGED managerVars
    /\ UNCHANGED << success_count, total_platforms, term, outcomes, atAbort >>
    /\ UNCHANGED wvars
    /\ UNCHANGED tvars

\* _upload_file, one iteration of "for platform in target_platforms": break
\* on abort_requested, else total_platforms += 1 and the adapter is called
\* and returns; when the loop ends the status is computed from the counts
UploadFileNextTarget(i, outcome) ==
    /\ ipc[i] = "loop"
    /\ IF abort_requested
       THEN /\ term' = [term EXCEPT ![i] =
                           Aggregate(success_count[i], total_platforms[i])]
            /\ ipc' = [ipc EXCEPT ![i] = "cleanupT"]
            /\ UNCHANGED << total_platforms, success_count, outcomes >>
       ELSE LET success == UploadToPlatform(outcome)
                sc == CountSuccess(success_count[i], success)
                tp == total_platforms[i] + 1
            IN  /\ total_platforms' = [total_platforms EXCEPT ![i] = tp]
                /\ success_count' = [success_count EXCEPT ![i] = sc]
                /\ outcomes' = [outcomes EXCEPT ![i] = Append(@, success)]
                /\ IF tp = Len(target_platforms[i])
                   THEN /\ term' = [term EXCEPT ![i] = Aggregate(sc, tp)]
                        /\ ipc' = [ipc EXCEPT ![i] = "cleanupT"]
                   ELSE UNCHANGED << term, ipc >>
    /\ UNCHANGED managerVars
    /\ UNCHANGED << target_platforms, markers, atAbort >>
    /\ UNCHANGED wvars
    /\ UNCHANGED tvars

\* the final create_status_file(path, status, ...): cleanup_status_files
UploadFileCleanup(i) ==
    /\ ipc[i] = "cleanupT"
    /\ markers' = CleanedUp(MarkerKey(itemFile[i]))
    /\ ipc' = [ipc EXCEPT ![i] = "writeT"]
    /\ UNCHANGED managerVars
    /\ UNCHANGED atAbort
    /\ UNCHANGED itemLocals
    /\ UNCHANGED wvars
    /\ UNCHANGED tvars

\* the final create_status_file(path, status, ...): the marker file is
\* written, and _upload_file returns
UploadFileMarkTerminal(i) ==
    /\ ipc[i] = "writeT"
    /\ markers' = Written(MarkerKey(itemFile[i]), term[i])
    /\ ipc' = [ipc EXCEPT ![i] = "done"]
    /\ UNCHANGED managerVars
    /\ UNCHANGED atAbort
    /\ UNCHANGED itemLocals
    /\ UNCHANGED wvars
    /\ UNCHANGED tvars

ONext ==
    \/ \E f \in Files : AddToQueue(f)
    \/ StartUploadsCheck
    \/ StartUploadsSet
    \/ \E r \in Runs : ProcessDrain(r)
    \/ \E r \in Runs : ProcessSubmit(r)
    \/ \E r \in Runs : ProcessJoin(r)
    \/ AbortAll
    \/ \E i \in Items : UploadFileBegin(i)
    \/ \E i \in Items : UploadFileMarkUploading(i)
    \/ \E i \in Items, o \in AdapterOutcomes : UploadFileNextTarget(i, o)
    \/ \E i \in Items : UploadFileCleanup(i)
    \/ \E i \in Items : UploadFileMarkTerminal(i)

(***************************************************************************)
(* VideoFileHandler (folder_watcher.py) and the MainTab callbacks          *)
(***************************************************************************)
Timers == 1..MaxTimers

\* VideoFileHandler.valid_extensions
valid_extensions ==
    { <<"m", "o", "v">>, <<"m", "p", "4">>, <<"a", "v", "i">>,
      <<"m", "k", "v">>, <<"m", "4", "v">>, <<"w", "m", "v">> }

\* os.path.splitext(file_path)[0]: the path without its extension
SplitExtBase(f) == <<FileTable[f].dir, FileTable[f].stem>>

SidecarBases == {SplitExtBase(f) : f \in Files}

SidecarKinds == {"_TITLE.txt", "_DESCRIPTION.txt", "_SHORT_DESC.txt"}

\* FolderWatcher.get_folder_type, on paths whose only occurrence of a folder
\* name is their parent directory
GetFolderType(f) ==
    CASE FileTable[f].dir = "CloudFlare" -> "cloudflare"
      [] FileTable[f].dir = "Pinterest" -> "pinterest"
      [] FileTable[f].dir = "YouTube Shorts" -> "youtube_shorts"
      [] OTHER -> "unknown"

\* MainTab.validate_file_requirements(file_path)
ValidateFileRequirements(f) ==
    LET present == sidecars[SplitExtBase(f)]
        folder_type == IF folder_watcher # "None" THEN GetFolderType(f) ELSE "unknown"
    IN  IF "_TITLE.txt" \notin present THEN FALSE
        ELSE IF folder_type = "cloudflare" THEN "_DESCRIPTION.txt" \in present
        ELSE IF folder_type = "youtube_shorts" THEN "_SHORT_DESC.txt" \in present
        ELSE TRUE

\* a faulty completeness test, which does not compare the two samples
IsFileCompleteNonEmpty(size1, size2) == size1 > 0

\* VideoFileHandler.is_file_complete, given its two size samples
IsFileComplete(size1, size2) == size1 = size2 /\ size1 > 0

WInit ==
    /\ fsize = [f \in Files |-> 1]
    /\ sidecars = [b \in SidecarBases |-> {}]
    /\ tcount = 0
    /\ timers = [t \in Timers |-> [path |-> 0, st |-> "unused", size1 |-> 0]]
    /\ file_timers = [f \in Files |-> 0]
    /\ processing_files = {}
    /\ rechecks = EmptyBag
    /\ callback_count = [f \in Files |-> 0]
    /\ handed = [f \in Files |-> 0]
    /\ recheck_count = [f \in Files |-> 0]
    /\ gave_up = [f \in Files |-> 0]
    /\ folder_watcher = "watcher"

\* no StatusTracker call from outside a run and no target derivation yet
TInit ==
    /\ tracker_call = [op |-> "none", path |-> 0, status |-> "none",
                       before |-> {}, result |-> "none"]
    /\ derive_call = [folder_type |-> "none", filename |-> <<>>, result |-> "unset"]
    /\ call = [op |-> "none"]

\* MainTab.process_single_file(file_path, folder_type): create_file_info
\* builds a FileInfo (an exception is logged and ends the call), then
\* add_single_file builds its own FileInfo and puts it in the queue (an
\* exception is logged), then start_uploads is called unless is_running
ProcessSingleFile(f) ==
    /\ handed' = [handed EXCEPT ![f] = @ + 1]
    /\ IF FileInfoConstructs(CreateFileInfoKwargs)
       THEN /\ IF FileInfoConstructs(AddSingleFileKwargs) /\ nextItem < MaxItems
               THEN /\ nextItem' = nextItem + 1
                    /\ itemFile' = [itemFile EXCEPT ![nextItem + 1] = f]
                    /\ ipc' = [ipc EXCEPT ![nextItem + 1] = "queued"]
                    /\ upload_queue' = Append(upload_queue, nextItem + 1)
               ELSE UNCHANGED << nextItem, itemFile, ipc, upload_queue >>
            /\ IF ~is_running /\ nRuns < MaxRuns
               THEN /\ is_running' = TRUE
                    /\ abort_requested' = FALSE
                    /\ nRuns' = nRuns + 1
                    /\ rpc' = [rpc EXCEPT ![nRuns + 1] = "drain"]
               ELSE UNCHANGED << is_running, abort_requested, nRuns, rpc >>
       ELSE UNCHANGED << nextItem, itemFile, ipc, upload_queue, is_running,
                         abort_requested, nRuns, rpc >>
    /\ UNCHANGED << executor, enabled_platforms, cAdding, cChecked,
                    files_to_upload, submitted, shut, raised, complete,
                    nAborts, target_platforms, success_count,
                    total_platforms, term, markers, outcomes, atAbort >>

\* MainTab.schedule_recheck(file_path, folder_type, attempts): give up at
\* max_attempts, else start a Timer(300, recheck)
ScheduleRecheck(f, attempts) ==
    /\ rechecks' = IF attempts >= max_attempts
                   THEN rechecks
                   ELSE rechecks (+) SetToBag({<<f, attempts>>})
    /\ gave_up' = IF attempts >= max_attempts
                  THEN [gave_up EXCEPT ![f] = @ + 1]
                  ELSE gave_up

\* MainTab.on_file_detected via FolderWatcher.on_file_detected, with
\* auto_process set: process the file when its text files are there, else
\* schedule a recheck
OnFileDetected(f) ==
    /\ callback_count' = [callback_count EXCEPT ![f] = @ + 1]
    /\ IF ValidateFileRequirements(f)
       THEN /\ ProcessSingleFile(f)
            /\ UNCHANGED << rechecks, gave_up >>
       ELSE /\ ScheduleRecheck(f, 0)
            /\ UNCHANGED handed
            /\ UNCHANGED ovars

\* the file system: a writer appends to a media file
FsGrow(f) ==
    /\ fsize[f] < MaxSize
    /\ fsize' = [fsize EXCEPT ![f] = @ + 1]
    /\ UNCHANGED << sidecars, tcount, timers, file_timers, processing_files,
                    rechecks, callback_count, handed >>
    /\ UNCHANGED ovars
    /\ UNCHANGED << recheck_count, gave_up >>
    /\ UNCHANGED folder_watcher
    /\ UNCHANGED tvars

\* the file system: one of the sidecar text files of a base name is written
FsWriteSidecars(b, kind) ==
    /\ kind \notin sidecars[b]
    /\ sidecars' = [sidecars EXCEPT ![b] = @ \cup {kind}]
    /\ UNCHANGED << fsize, tcount, timers, file_timers, processing_files,
                    rechecks, callback_count, handed >>
    /\ UNCHANGED ovars
    /\ UNCHANGED << recheck_count, gave_up >>
    /\ UNCHANGED folder_watcher
    /\ UNCHANGED tvars

\* VideoFileHandler.handle_file_event(file_path, 'created' | 'modified')
HandleFileEvent(f) ==
    /\ folder_watcher = "watcher"
    /\ tcount < MaxTimers
    /\ IF FileTable[f].ext \notin valid_extensions \/ f \in processing_files
       THEN UNCHANGED << tcount, timers, file_timers >>
       ELSE /\ tcount' = tcount + 1
            /\ timers' =
                  [t \in Timers |->
                      IF t = tcount + 1
                      THEN [path |-> f, st |-> "armed", size1 |-> 0]
                      ELSE IF t = file_timers[f] /\ timers[t].st = "armed"
                      THEN [timers[t] EXCEPT !.st = "cancelled"]
                      ELSE timers[t]]
            /\ file_timers' = [file_timers EXCEPT ![f] = tcount + 1]
    /\ UNCHANGED << fsize, sidecars, processing_files, rechecks,
                    callback_count, handed >>
    /\ UNCHANGED ovars
    /\ UNCHANGED << recheck_count, gave_up >>
    /\ UNCHANGED folder_watcher
    /\ UNCHANGED tvars

\* a debounce timer expires: its thread passes the test of the cancel flag
\* and is about to run process_stable_file; cancel() has no effect any more
TimerFires(t) ==
    /\ timers[t].st = "armed"
    /\ timers' = [timers EXCEPT ![t].st = "fired"]
    /\ UNCHANGED << fsize, sidecars, tcount, file_timers, processing_files,
                    rechecks, callback_count, handed >>
    /\ UNCHANGED ovars
    /\ UNCHANGED << recheck_count, gave_up >>
    /\ UNCHANGED folder_watcher
    /\ UNCHANGED tvars

\* process_stable_file removes the entry of file_timers stored for the path,
\* whichever timer it holds, and is_file_complete takes its first size
\* sample and sleeps
TimerRemovesEntry(t) ==
    /\ timers[t].st = "fired"
    /\ file_timers' = [file_timers EXCEPT ![timers[t].path] = 0]
    /\ timers' = [timers EXCEPT ![t].st = "probing",
                                ![t].size1 = fsize[timers[t].path]]
    /\ UNCHANGED << fsize, sidecars, tcount, processing_files, rechecks,
                    callback_count, handed >>
    /\ UNCHANGED ovars
    /\ UNCHANGED << recheck_count, gave_up >>
    /\ UNCHANGED folder_watcher
    /\ UNCHANGED tvars

\* is_file_complete takes its second size sample; when the file is complete
\* process_stable_file adds the path to processing_files and calls the
\* callback
TimerProbes(t) ==
    /\ timers[t].st = "probing"
    /\ timers' = [timers EXCEPT ![t].st = "finished"]
    /\ LET f == timers[t].path
       IN  IF IsFileComplete(timers[t].size1, fsize[f])
           THEN /\ processing_files' = processing_files \cup {f}
                /\ OnFileDetected(f)
           ELSE /\ UNCHANGED << processing_files, rechecks, callback_count,
                                handed, gave_up >>
                /\ UNCHANGED ovars
    /\ UNCHANGED << fsize, sidecars, tcount, file_timers, recheck_count >>
    /\ UNCHANGED folder_watcher
    /\ UNCHANGED tvars

\* MainTab.stop_scanning: the observer is stopped, so no further event is
\* delivered, and folder_watcher is reset to None; timers already started
\* are not cancelled
StopScanning ==
    /\ folder_watcher = "watcher"
    /\ folder_watcher' = "None"
    /\ UNCHANGED << fsize, sidecars, tcount, timers, file_timers,
                    processing_files, rechecks, callback_count, handed,
                    recheck_count, gave_up >>
    /\ UNCHANGED ovars
    /\ UNCHANGED tvars

\* a Timer(300, recheck) expires: recheck() of schedule_recheck
RecheckFires(f, attempts) ==
    /\ BagIn(<<f, attempts>>, rechecks)
    /\ recheck_count' = [recheck_count EXCEPT ![f] = @ + 1]
    /\ IF ValidateFileRequirements(f)
       THEN /\ ProcessSingleFile(f)
            /\ rechecks' = rechecks (-) SetToBag({<<f, attempts>>})
            /\ UNCHANGED gave_up
       ELSE /\ rechecks' =
                  IF attempts + 1 >= max_attempts
                  THEN rechecks (-) SetToBag({<<f, attempts>>})
                  ELSE (rechecks (-) SetToBag({<<f, attempts>>}))
                           (+) SetToBag({<<f, attempts + 1>>})
            /\ gave_up' = IF attempts + 1 >= max_attempts
                          THEN [gave_up EXCEPT ![f] = @ + 1]
                          ELSE gave_up
            /\ UNCHANGED handed
            /\ UNCHANGED ovars
    /\ UNCHANGED << fsize, sidecars, tcount, timers, file_timers,
                    processing_files, callback_count >>
    /\ UNCHANGED folder_watcher
    /\ UNCHANGED tvars

WNext ==
    \/ \E f \in Files : FsGrow(f)
    \/ \E b \in SidecarBases, kind \in SidecarKinds : FsWriteSidecars(b, kind)
    \/ \E f \in Files : HandleFileEvent(f)
    \/ \E t \in Timers : TimerFires(t)
    \/ \E t \in Timers : TimerRemovesEntry(t)
    \/ \E t \in Timers : TimerProbes(t)
    \/ StopScanning
    \/ \E f \in Files, a \in 0..(max_attempts - 1) : RecheckFires(f, a)

Init == OInit /\ WInit /\ TInit

Next == ONext

Spec == Init /\ [][Next]_vars

(***************************************************************************)
(* StatusTracker called on its own, on folders that hold any marker files  *)
(***************************************************************************)
TrackerInit ==
    /\ ManagerInit
    /\ WInit
    /\ TInit
    /\ markers \in [TrackerKeys -> SUBSET StatusTypes]

trackerUnchanged ==
    << upload_queue, is_running, abort_requested, executor, enabled_platforms,
       nextItem, itemFile, cAdding, cChecked, nRuns, rpc, files_to_upload,
       submitted, shut, raised, complete, nAborts, ipc, target_platforms,
       success_count, total_platforms, term, outcomes, atAbort, derive_call,
       call >>

\* get_file_status(path)
TrackerGet(p) ==
    /\ tracker_call' = [op |-> "get", path |-> p, status |-> "none",
                        before |-> markers[PathKey(p)],
                        result |-> get_file_status(PathKey(p))]
    /\ UNCHANGED markers
    /\ UNCHANGED trackerUnchanged
    /\ UNCHANGED wvars

\* create_status_file(path, status, msg) followed by get_file_status(path)
TrackerCreateGet(p, status) ==
    /\ markers' = create_status_file(markers, PathKey(p), status)
    /\ tracker_call' = [op |-> "create_get", path |-> p, status |-> status,
                        before |-> markers[PathKey(p)],
                        result |-> get_file_status(PathKey(p))']
    /\ UNCHANGED trackerUnchanged
    /\ UNCHANGED wvars

\* cleanup_status_files(path) followed by get_file_status(path)
TrackerCleanupGet(p) ==
    /\ markers' = cleanup_status_files(markers, PathKey(p))
    /\ tracker_call' = [op |-> "cleanup_get", path |-> p, status |-> "none",
                        before |-> markers[PathKey(p)],
                        result |-> get_file_status(PathKey(p))']
    /\ UNCHANGED trackerUnchanged
    /\ UNCHANGED wvars

TrackerNext ==
    \/ \E p \in TrackerPaths : TrackerGet(p)
    \/ \E p \in TrackerPaths, status \in StatusTypes : TrackerCreateGet(p, status)
    \/ \E p \in TrackerPaths : TrackerCleanupGet(p)

TrackerSpec == TrackerInit /\ [][TrackerNext]_vars

(***************************************************************************)
(* The target derivation called on its own                                 *)
(***************************************************************************)
\* folder_type arguments: the three folder types, and strings that are none
\* of them
FolderTypeArgs ==
    {"cloudflare", "pinterest", "youtube_shorts", "unknown", "CloudFlare", ""}

NameChars == {"0", "1", "a"}

\* filename arguments: every string over NameChars of at most MaxNameLen
\* characters
FilenameArgs ==
    UNION {[1..n -> NameChars] : n \in 0..MaxNameLen}

DeriveInit ==
    /\ OInit
    /\ WInit
    /\ tracker_call = [op |-> "none", path |-> 0, status |-> "none",
                       before |-> {}, result |-> "none"]
    /\ derive_call \in [folder_type : FolderTypeArgs, filename : FilenameArgs,
                         result : {"unset"}]
    /\ call = [op |-> "none"]

\* a call of _get_target_platforms_for_folder with the arguments drawn
Derive ==
    /\ derive_call.result = "unset"
    /\ derive_call' =
          [derive_call EXCEPT !.result =
              GetTargetPlatformsForFolder(derive_call.folder_type,
                                          derive_call.filename)]
    /\ UNCHANGED ovars
    /\ UNCHANGED wvars
    /\ UNCHANGED << tracker_call, call >>

DeriveNext == Derive

DeriveSpec == DeriveInit /\ [][DeriveNext]_vars

\* the watcher, its timers and the MainTab callbacks, the orchestrator idle
(***************************************************************************)
(* _upload_file called on its own for one FileInfo, with no abort: the     *)
(* filter of the declared platforms, the loop and the aggregation          *)
(***************************************************************************)
\* the platforms lists a FileInfo can carry
DeclaredChoices ==
    { <<"cloudflare", "facebook", "youtube">>, <<"cloudflare", "facebook">>,
      <<"pinterest">>, <<"youtube_shorts">>, <<>> }

\* the keys SettingsTab.get_enabled_platforms can return
EnabledKeys == {"cloudflare", "youtube", "pinterest", "facebook"}

UploadCallInit ==
    /\ OInit
    /\ WInit
    /\ tracker_call = [op |-> "none", path |-> 0, status |-> "none",
                       before |-> {}, result |-> "none"]
    /\ derive_call = [folder_type |-> "none", filename |-> <<>>, result |-> "unset"]
    /\ call \in [op : {"upload_file"}, platforms : DeclaredChoices,
                  enabled : SUBSET EnabledKeys, stage : {"filter"},
                  target_platforms : {<<>>}, success_count : {0},
                  total_platforms : {0}, outcomes : {<<>>}, status : {"none"}]

\* target_platforms = self._get_target_platforms(file_info); return False
\* when the list is empty
UploadCallFilter ==
    /\ call.op = "upload_file"
    /\ call.stage = "filter"
    /\ LET tp == GetTargetPlatforms(call.platforms, call.enabled)
       IN  call' = [call EXCEPT !.target_platforms = tp,
                                !.stage = IF tp = <<>> THEN "returned" ELSE "loop"]
    /\ UNCHANGED ovars
    /\ UNCHANGED wvars
    /\ UNCHANGED << tracker_call, derive_call >>

\* one iteration of the loop; after the last one the status is computed
UploadCallAttempt(outcome) ==
    /\ call.op = "upload_file"
    /\ call.stage = "loop"
    /\ LET success == UploadToPlatform(outcome)
           sc == CountSuccess(call.success_count, success)
           tp == call.total_platforms + 1
           last == tp = Len(call.target_platforms)
       IN  call' = [call EXCEPT !.total_platforms = tp,
                                !.success_count = sc,
                                !.outcomes = Append(@, success),
                                !.stage = IF last THEN "returned" ELSE "loop",
                                !.status = IF last THEN Aggregate(sc, tp) ELSE @]
    /\ UNCHANGED ovars
    /\ UNCHANGED wvars
    /\ UNCHANGED << tracker_call, derive_call >>

UploadCallNext ==
    \/ UploadCallFilter
    \/ \E o \in AdapterOutcomes : UploadCallAttempt(o)

UploadCallSpec == UploadCallInit /\ [][UploadCallNext]_vars

(***************************************************************************)
(* StatusTracker.cleanup_old_status_files called on its own on a folder    *)
(***************************************************************************)
\* the files of the folder: the five marker files of a video, one of its
\* sidecar text files and the video itself
FolderEntries ==
    {<<"marker", st>> : st \in StatusTypes} \cup
        {<<"sidecar", "TITLE">>, <<"video", "mp4">>}

\* folder.rglob('*_*.txt'), then "any(status_file.name.endswith(
\* f'_{status}.txt') for status in self.status_types.keys())"
IsStatusFile(e) == e[1] = "marker" /\ e[2] \in StatusTypes

\* datetime.now().timestamp(), later than every modification time
Now == MaxMtime + 1

\* cleanup_old_status_files(folder_path, days_old) on a folder whose entry e
\* has modification time mtime[e], 0 for a file that does not exist: the
\* files left, and the count returned
cleanup_old_status_files(mtime, days_old) ==
    LET cutoff_time == Now - days_old
        unlinked == {e \in FolderEntries :
                        mtime[e] > 0 /\ IsStatusFile(e) /\ mtime[e] < cutoff_time}
    IN  [after |-> [e \in FolderEntries |-> IF e \in unlinked THEN 0 ELSE mtime[e]],
         cleaned_count |-> Cardinality(unlinked)]

PurgeInit ==
    /\ OInit
    /\ WInit
    /\ tracker_call = [op |-> "none", path |-> 0, status |-> "none",
                       before |-> {}, result |-> "none"]
    /\ derive_call = [folder_type |-> "none", filename |-> <<>>, result |-> "unset"]
    /\ call \in [op : {"cleanup_old"}, mtime : [FolderEntries -> 0..MaxMtime],
                  days_old : 0..Now, stage : {"called"}]

\* the call returns
PurgeReturn ==
    /\ call.op = "cleanup_old"
    /\ call.stage = "called"
    /\ LET r == cleanup_old_status_files(call.mtime, call.days_old)
       IN  call' = [op |-> "cleanup_old", mtime |-> call.mtime,
                    days_old |-> call.days_old, stage |-> "returned",
                    after |-> r.after, cleaned_count |-> r.cleaned_count]
    /\ UNCHANGED ovars
    /\ UNCHANGED wvars
    /\ UNCHANGED << tracker_call, derive_call >>

PurgeNext == PurgeReturn

PurgeSpec == PurgeInit /\ [][PurgeNext]_vars

(***************************************************************************)
(* The three target derivations called on the same file                    *)
(***************************************************************************)
\* directories of the file: none, one without and one with "001" in its name
DirArgs == { <<>>, <<"a">>, <<"0", "0", "1">> }

\* os.path.join(dir, filename)
JoinPath(dir, filename) ==
    IF dir = <<>> THEN filename ELSE dir \o <<"/">> \o filename

DerivationsInit ==
    /\ OInit
    /\ WInit
    /\ tracker_call = [op |-> "none", path |-> 0, status |-> "none",
                       before |-> {}, result |-> "none"]
    /\ derive_call = [folder_type |-> "none", filename |-> <<>>, result |-> "unset"]
    /\ call \in [op : {"derivations"}, folder_type : FolderTypeArgs,
                  dir : DirArgs, filename : FilenameArgs, stage : {"called"}]

\* the folder scan, add_single_file and the watcher path each derive the
\* platforms of the file: the first two from its name, the third from its path
Derivations ==
    /\ call.op = "derivations"
    /\ call.stage = "called"
    /\ call' = [op |-> "derivations", folder_type |-> call.folder_type,
                dir |-> call.dir, filename |-> call.filename,
                stage |-> "returned",
                scan |-> DeterminePlatforms(call.filename, call.folder_type),
                single |-> GetTargetPlatformsForFolder(call.folder_type,
                                                       call.filename),
                watcher |-> GetTargetPlatformsForFile(
                                JoinPath(call.dir, call.filename),
                                call.folder_type)]
    /\ UNCHANGED ovars
    /\ UNCHANGED wvars
    /\ UNCHANGED << tracker_call, derive_call >>

DerivationsNext == Derivations

DerivationsSpec == DerivationsInit /\ [][DerivationsNext]_vars

WatcherSpec == Init /\ [][WNext]_vars

\* the watcher while scanning is on and no recheck timer (300 s) expires:
\* events, debounce timers (3 s) and size probes (1 s)
DebounceNext ==
    \/ \E f \in Files : FsGrow(f)
    \/ \E b \in SidecarBases, kind \in SidecarKinds : FsWriteSidecars(b, kind)
    \/ \E f \in Files : HandleFileEvent(f)
    \/ \E t \in Timers : TimerFires(t)
    \/ \E t \in Timers : TimerRemovesEntry(t)
    \/ \E t \in Timers : TimerProbes(t)

DebounceSpec == Init /\ [][DebounceNext]_vars

\* a session started on folders in which an earlier session left at most one
\* marker per video: the markers are files on disk and outlive the process
RestartInit ==
    /\ ManagerInit
    /\ WInit
    /\ TInit
    /\ markers \in [MarkerKeys -> {{}} \cup {{s} : s \in StatusTypes}]

RestartSpec == RestartInit /\ [][DebounceNext]_vars

\* FileManager.scan_folders returns each path of the folder once
ScanOnce ==
    \A i, j \in 1..nextItem' : i # j => itemFile'[i] # itemFile'[j]

\* the steps of one pass of upload_worker over the folder: one caller at a
\* time, each path put in the queue once, one _process_upload_queue thread
SingleRunNext ==
    \/ \E f \in Files : AddToQueue(f) /\ ScanOnce /\ cAdding' + cChecked' <= 1
    \/ StartUploadsCheck
    \/ StartUploadsSet /\ nRuns' <= 1
    \/ \E r \in Runs : ProcessDrain(r)
    \/ \E r \in Runs : ProcessSubmit(r)
    \/ \E r \in Runs : ProcessJoin(r)
    \/ AbortAll
    \/ \E i \in Items : UploadFileBegin(i)
    \/ \E i \in Items : UploadFileMarkUploading(i)
    \/ \E i \in Items, o \in AdapterOutcomes : UploadFileNextTarget(i, o)
    \/ \E i \in Items : UploadFileCleanup(i)
    \/ \E i \in Items : UploadFileMarkTerminal(i)

SingleRunSpec == Init /\ [][SingleRunNext]_vars

\* one pass of upload_worker in which every thread that can take a step
\* eventually takes it: the _process_upload_queue thread, the pool's
\* workers, and every adapter call returns
Fairness ==
    /\ \A r \in Runs : WF_vars(ProcessDrain(r))
    /\ \A r \in Runs : WF_vars(ProcessSubmit(r))
    /\ \A r \in Runs : WF_vars(ProcessJoin(r))
    /\ \A i \in Items : WF_vars(UploadFileBegin(i))
    /\ \A i \in Items : WF_vars(UploadFileMarkUploading(i))
    /\ \A i \in Items : WF_vars(\E o \in AdapterOutcomes : UploadFileNextTarget(i, o))
    /\ \A i \in Items : WF_vars(UploadFileCleanup(i))
    /\ \A i \in Items : WF_vars(UploadFileMarkTerminal(i))

FairSingleRunSpec == SingleRunSpec /\ Fairness

(***************************************************************************)
(* Properties                                                              *)
(***************************************************************************)
AllSucceeded(i) == \A k \in DOMAIN outcomes[i] : outcomes[i][k]

NoneSucceeded(i) == \A k \in DOMAIN outcomes[i] : ~outcomes[i][k]

\* C1: an item with a non-empty effective target set whose processing saw no
\* abort has every target attempted, and the terminal state it writes is
\* COMPLETED iff every adapter call succeeded, ERROR iff none succeeded and
\* PARTIAL iff some succeeded and some failed.
C1_AggregateMatchesOutcomes ==
    \A i \in Items :
        (ipc[i] = "done" /\ target_platforms[i] # <<>>) =>
            /\ atAbort[i] \in {"na", "finished"} =>
                  Len(outcomes[i]) = Len(target_platforms[i])
            /\ Len(outcomes[i]) = Len(target_platforms[i]) =>
                  /\ term[i] = "COMPLETED" <=> AllSucceeded(i)
                  /\ term[i] = "ERROR" <=> NoneSucceeded(i)
                  /\ term[i] = "PARTIAL" <=> (~AllSucceeded(i) /\ ~NoneSucceeded(i))

C1_Witness ==
    \E i \in Items :
        /\ ipc[i] = "done"
        /\ atAbort[i] = "na"
        /\ outcomes[i] = <<TRUE, FALSE, TRUE>>
        /\ term[i] = "PARTIAL"

\* C2: for every source file at most one of the five state markers exists.
C2_AtMostOneMarker ==
    \A key \in MarkerKeys : Cardinality(markers[key]) <= 1

\* C3: at most max_concurrent items are inside _upload_file at any moment.
C3_AtMostMaxConcurrent ==
    Cardinality({i \in Items : ipc[i] \in Executing}) <= MaxConcurrent

\* C4: at most one _process_upload_queue thread is active at any time.
C4_OneProcessThread ==
    Cardinality(ActiveRuns) <= 1

\* C5: when abort_all is called while an item is executing in a worker, an
\* item of the run that had not started is never started: it stays unstarted,
\* gets no marker and no adapter is called for it.
C5_WaitingNeverStarted ==
    \A i \in Items :
        (atAbort[i] = "waiting" /\ \E j \in Items : atAbort[j] = "inflight")
            => ipc[i] \in {"taken", "pending"}

\* C6: once abort_all has set the flag, no adapter call begins for an item of
\* the aborted run.
C6_NoAdapterCallAfterAbort ==
    [][\A i \in Items :
          atAbort[i] # "na" => Len(outcomes'[i]) = Len(outcomes[i])]_vars

\* C7: an item whose loop observed the abort flag before its first target
\* (zero targets attempted) gets the terminal state CANCELLED.
C7_ZeroAttemptsCancelled ==
    \A i \in Items :
        (/\ ipc[i] \in {"cleanupT", "writeT", "done"}
         /\ target_platforms[i] # <<>>
         /\ total_platforms[i] = 0) => term[i] = "CANCELLED"

\* C8: an item whose effective target set is empty is skipped and no marker
\* is created or left behind: when nothing else has touched the markers of
\* its path, the path has no marker after the item has been processed.
C8_NoMarkerForEmptyTargets ==
    \A i \in Items :
        (/\ ipc[i] = "done"
         /\ target_platforms[i] = <<>>
         /\ \A j \in Items \ {i} :
                ipc[j] \in {"new", "queued", "taken", "pending", "discarded"})
            => markers[MarkerKey(itemFile[i])] = {}

\* C9: without abort_all, every item put in the queue is taken and processed:
\* when no caller is inside add_to_queue/start_uploads and no run is active,
\* every FileInfo created has been processed.
C9_EveryItemProcessed ==
    (nAborts = 0 /\ cAdding = 0 /\ cChecked = 0 /\ ActiveRuns = {}) =>
        \A i \in 1..nextItem : ipc[i] = "done"

\* C10: a stable file whose sidecars are present, handed to
\* process_single_file by the watcher's callback or by a recheck, is in the
\* orchestrator exactly once.
C10_StableFileEnqueuedOnce ==
    \A f \in Files :
        handed[f] >= 1 =>
            Cardinality({i \in 1..nextItem : itemFile[i] = f}) = 1

\* C11: when the two size samples of a debounce timer's probe differ, that
\* expiry does not call the callback, does not add the path to
\* processing_files and enqueues nothing.
C11_UnstableProbeNotEnqueued ==
    [][\A t \in Timers :
          (/\ timers[t].st = "probing"
           /\ timers'[t].st = "finished"
           /\ timers[t].size1 # fsize[timers[t].path])
              => /\ callback_count' = callback_count
                 /\ processing_files' = processing_files
                 /\ handed' = handed
                 /\ upload_queue' = upload_queue]_vars

C11_Witness ==
    \E t \in Timers :
        /\ timers[t].st = "finished"
        /\ timers[t].size1 > 0
        /\ callback_count[timers[t].path] = 0
        /\ timers[t].path \notin processing_files

\* C12: a detected file whose required text files have not appeared is
\* abandoned after exactly max_attempts rechecks: once the "Giving up" line
\* has been logged for it and no recheck timer is pending for it, it has been
\* rechecked max_attempts times and abandoned once, no FileInfo was produced
\* for it and it has no status marker.
C12_AbandonedAfterMaxAttempts ==
    \A f \in Files :
        (/\ gave_up[f] >= 1
         /\ ~ValidateFileRequirements(f)
         /\ \A a \in 0..(max_attempts - 1) : ~BagIn(<<f, a>>, rechecks)) =>
            /\ recheck_count[f] = max_attempts
            /\ gave_up[f] = 1
            /\ handed[f] = 0
            /\ \A i \in 1..nextItem : itemFile[i] # f
            /\ markers[MarkerKey(f)] = {}

\* C13: create_status_file(path, state, msg) followed immediately by
\* get_file_status(path) returns that state, for each of the five states and
\* whatever markers the path carried before.
C13_ReadAfterWrite ==
    tracker_call.op = "create_get" => tracker_call.result = tracker_call.status

C13_Witness ==
    /\ tracker_call.op = "create_get"
    /\ tracker_call.status = "CANCELLED"
    /\ tracker_call.before = {"UPLOADING"}
    /\ tracker_call.result = "CANCELLED"

\* C14: get_file_status returns PENDING exactly when the path has no marker;
\* cleanup_status_files followed by get_file_status returns PENDING whatever
\* markers the path carried; a second cleanup_status_files changes nothing.
C14_PendingAndCleanup ==
    /\ tracker_call.op = "get" =>
           (tracker_call.result = "PENDING" <=> tracker_call.before = {})
    /\ tracker_call.op = "cleanup_get" =>
           /\ tracker_call.result = "PENDING"
           /\ cleanup_status_files(markers, PathKey(tracker_call.path)) = markers

C14_Witness ==
    /\ tracker_call.op = "cleanup_get"
    /\ tracker_call.before = {"ERROR", "CANCELLED"}
    /\ tracker_call.result = "PENDING"

\* C15: the targets derived from (folder type, filename) are cloudflare,
\* facebook, youtube for 'cloudflare' and a filename in which "001" occurs,
\* cloudflare, facebook for 'cloudflare' otherwise, pinterest for 'pinterest',
\* youtube_shorts for 'youtube_shorts', and none for any other folder type;
\* every call returns a list.
C15_TargetDerivation ==
    derive_call.result # "unset" =>
        LET name == derive_call.filename
            has001 == \E a \in 1..Len(name) :
                         a + 2 <= Len(name) /\ SubSeq(name, a, a + 2) = <<"0", "0", "1">>
            result == derive_call.result
        IN  /\ result \in Seq({"cloudflare", "facebook", "youtube", "pinterest",
                                "youtube_shorts"})
            /\ Len(result) = Cardinality(Range(result))
            /\ Range(result) =
                  CASE derive_call.folder_type = "cloudflare" /\ has001 ->
                          {"cloudflare", "facebook", "youtube"}
                    [] derive_call.folder_type = "cloudflare" /\ ~has001 ->
                          {"cloudflare", "facebook"}
                    [] derive_call.folder_type = "pinterest" -> {"pinterest"}
                    [] derive_call.folder_type = "youtube_shorts" -> {"youtube_shorts"}
                    [] OTHER -> {}

C15_Witness ==
    /\ derive_call.folder_type = "cloudflare"
    /\ derive_call.filename = <<"a", "0", "0", "1">>
    /\ derive_call.result # "unset"
    /\ derive_call.result = <<"cloudflare", "facebook", "youtube">>

\* C16: discovery does not enqueue a source file that carries a terminal
\* marker: no FileInfo is created for a path while a COMPLETED, PARTIAL, ERROR
\* or CANCELLED marker exists for it.
C16_TerminalNotReEnqueued ==
    [][nextItem' > nextItem =>
          markers[MarkerKey(itemFile'[nextItem'])] \cap TerminalStates = {}]_vars

\* C17: the watcher ignores an event on a path that carries a terminal status
\* marker: a debounce timer is armed only for a path without a COMPLETED,
\* PARTIAL, ERROR or CANCELLED marker.
C17_TerminalMarkerEventIgnored ==
    [][tcount' > tcount =>
          markers[MarkerKey(timers'[tcount'].path)] \cap TerminalStates = {}]_vars

\* C18: an adapter call that raises or returns failure is recorded as a
\* failed outcome of that target only: the attempt is counted, the success
\* count and the earlier outcomes are kept, the loop goes on to the next
\* target (or to the aggregation after the last one), no other item and no
\* part of the pool changes, and the item's final write leaves a terminal
\* marker.
C18_FailureIsolated ==
    [][\A i \in Items :
          /\ (/\ Len(outcomes'[i]) = Len(outcomes[i]) + 1
              /\ outcomes'[i][Len(outcomes'[i])] = FALSE) =>
                 /\ SubSeq(outcomes'[i], 1, Len(outcomes[i])) = outcomes[i]
                 /\ total_platforms'[i] = total_platforms[i] + 1
                 /\ success_count'[i] = success_count[i]
                 /\ ipc'[i] = IF Len(outcomes'[i]) < Len(target_platforms[i])
                              THEN "loop" ELSE "cleanupT"
                 /\ ipc'[i] = "cleanupT" => term'[i] \in {"PARTIAL", "ERROR"}
                 /\ \A j \in Items \ {i} :
                        /\ ipc'[j] = ipc[j]
                        /\ outcomes'[j] = outcomes[j]
                        /\ term'[j] = term[j]
                 /\ UNCHANGED << upload_queue, rpc, files_to_upload, submitted,
                                 shut, raised, abort_requested, is_running, markers >>
          /\ (ipc[i] = "writeT" /\ ipc'[i] = "done") =>
                 /\ term[i] \in TerminalStates
                 /\ term[i] \in markers'[MarkerKey(itemFile[i])]]_vars

C18_Witness ==
    \E i, j \in Items :
        /\ i # j
        /\ ipc[i] = "done"
        /\ outcomes[i] = <<FALSE, TRUE, TRUE>>
        /\ term[i] = "PARTIAL"
        /\ ipc[j] = "done"
        /\ RunOf(j) = RunOf(i)
        /\ Len(outcomes[j]) = Len(target_platforms[j])
        /\ markers[MarkerKey(itemFile[j])] = {term[j]}

\* C19: at no time are two workers inside _upload_file for the same source
\* path.
C19_OneAttemptPerPath ==
    \A i, j \in Items :
        (i # j /\ ipc[i] \in Executing /\ ipc[j] \in Executing) =>
            itemFile[i] # itemFile[j]

\* C20: every item for which the UPLOADING marker has been written
\* eventually carries exactly one terminal marker and no UPLOADING marker.
C20_UploadingLeadsToTerminal ==
    \A i \in Items :
        (ipc[i] \in {"loop", "cleanupT", "writeT", "done"}) ~>
            (/\ itemFile[i] \in Files
             /\ Cardinality(markers[MarkerKey(itemFile[i])] \cap TerminalStates) = 1
             /\ "UPLOADING" \notin markers[MarkerKey(itemFile[i])])

\* C21: within one item the order is causal and sequential: the loop over
\* the targets is entered only by the step that writes the UPLOADING marker,
\* every adapter call is made from inside the loop and records exactly the
\* next outcome (call k+1 after call k has returned or raised), and the
\* terminal marker is written only after the loop.
C21_CausalOrder ==
    [][\A i \in Items :
          /\ outcomes'[i] # outcomes[i] =>
                 /\ ipc[i] = "loop"
                 /\ Len(outcomes'[i]) = Len(outcomes[i]) + 1
                 /\ SubSeq(outcomes'[i], 1, Len(outcomes[i])) = outcomes[i]
                 /\ total_platforms'[i] = Len(outcomes'[i])
                 /\ Len(outcomes'[i]) <= Len(target_platforms[i])
          /\ (ipc[i] # "loop" /\ ipc'[i] = "loop") =>
                 /\ ipc[i] = "writeU"
                 /\ outcomes[i] = <<>>
                 /\ "UPLOADING" \in markers'[MarkerKey(itemFile[i])]
          /\ (ipc[i] # "cleanupT" /\ ipc'[i] = "cleanupT") => ipc[i] = "loop"
          /\ (ipc[i] # "writeT" /\ ipc'[i] = "writeT") => ipc[i] = "cleanupT"
          /\ (ipc[i] = "writeT" /\ ipc'[i] # "writeT") =>
                 /\ ipc'[i] = "done"
                 /\ term[i] \in markers'[MarkerKey(itemFile[i])]]_vars

C21_Witness ==
    \E i \in Items :
        /\ ipc[i] = "done"
        /\ outcomes[i] = <<TRUE, TRUE, FALSE>>
        /\ markers[MarkerKey(itemFile[i])] = {"PARTIAL"}

\* C22: when the probe at stability-window expiry finds the file unstable,
\* the debounce timer of the path is re-armed: after the step some armed
\* timer exists for the path.
C22_UnstableProbeRearms ==
    [][\A t \in Timers :
          (/\ timers[t].st = "probing"
           /\ timers'[t].st = "finished"
           /\ timers[t].size1 # fsize[timers[t].path]) =>
              \E u \in Timers :
                  /\ timers'[u].path = timers[t].path
                  /\ timers'[u].st = "armed"]_vars

\* C23: the effective target set is exactly the declared targets whose
\* adapter is configured, in declared order, youtube_shorts being configured
\* iff youtube is enabled; only effective targets are attempted and counted,
\* and an item all of whose effective targets succeed is COMPLETED.
C23_EffectiveTargets ==
    (call.op = "upload_file" /\ call.stage # "filter") =>
        LET declared == call.platforms
            targets == call.target_platforms
            configured(p) == IF p = "youtube_shorts"
                             THEN "youtube" \in call.enabled
                             ELSE p \in call.enabled
            kept == {k \in 1..Len(declared) : configured(declared[k])}
            at(p) == CHOOSE k \in 1..Len(declared) : declared[k] = p
        IN  /\ Len(targets) = Cardinality(kept)
            /\ Range(targets) = {declared[k] : k \in kept}
            /\ \A a, b \in 1..Len(targets) :
                   a < b => at(targets[a]) < at(targets[b])
            /\ call.total_platforms = Len(call.outcomes)
            /\ Len(call.outcomes) <= Len(targets)
            /\ call.stage = "returned" =>
                   /\ Len(call.outcomes) = Len(targets)
                   /\ targets = <<>> => call.status = "none"
                   /\ targets # <<>> =>
                          (call.status = "COMPLETED" <=>
                              \A k \in 1..Len(targets) : call.outcomes[k])

C23_Witness ==
    /\ call.op = "upload_file"
    /\ call.platforms = <<"cloudflare", "facebook", "youtube">>
    /\ call.enabled = {"cloudflare", "youtube"}
    /\ call.stage = "returned"
    /\ call.target_platforms = <<"cloudflare", "youtube">>
    /\ call.outcomes = <<TRUE, TRUE>>
    /\ call.status = "COMPLETED"

\* C24: a detected file is handed to processing only when its metadata is
\* ready at that check: the title sidecar exists, and the description
\* sidecar for a file of the CloudFlare folder, and the short-description
\* sidecar for a file of the YouTube Shorts folder.
C24_HandedOnlyWhenReady ==
    [][\A f \in Files :
          handed'[f] > handed[f] =>
              LET present == sidecars[SplitExtBase(f)]
              IN  /\ "_TITLE.txt" \in present
                  /\ FileTable[f].dir = "CloudFlare" => "_DESCRIPTION.txt" \in present
                  /\ FileTable[f].dir = "YouTube Shorts" => "_SHORT_DESC.txt" \in present]_vars

\* C25: a call of process_single_file for a stable, metadata-ready file
\* constructs the FileInfo and increases the queue depth by exactly one, the
\* new entry being a FileInfo of that path.
C25_ProcessSingleFileEnqueues ==
    [][\A f \in Files :
          (handed'[f] = handed[f] + 1 /\ nextItem < MaxItems) =>
              /\ Len(upload_queue') = Len(upload_queue) + 1
              /\ nextItem' = nextItem + 1
              /\ itemFile'[nextItem'] = f
              /\ upload_queue'[Len(upload_queue')] = nextItem']_vars

\* C26: markers are scoped to their own source file: create_status_file or
\* cleanup_status_files on a path p leaves get_file_status(q) unchanged for
\* every other source path q.
C26_MarkersScopedToPath ==
    [][markers' # markers =>
          \A q \in TrackerPaths \ {tracker_call'.path} :
              file_status(markers', PathKey(q)) = file_status(markers, PathKey(q))]_vars

\* C27: for every path whose item had written its terminal marker before
\* abort_all was called, get_file_status returns the same state after
\* abort_all and at every later step of the aborted run.
C27_AbortKeepsFinishedMarkers ==
    [][\A i \in Items :
          (/\ atAbort'[i] = "finished"
           /\ get_file_status(MarkerKey(itemFile[i])) \in TerminalStates) =>
              get_file_status(MarkerKey(itemFile[i]))' =
                  get_file_status(MarkerKey(itemFile[i]))]_vars

\* C28: cleanup_old_status_files deletes exactly the terminal-state markers
\* older than the given age, returns their count, and leaves every
\* UPLOADING marker, every newer marker and every other file unchanged.
C28_PurgesOldTerminalOnly ==
    (call.op = "cleanup_old" /\ call.stage = "returned") =>
        LET old(e) == call.mtime[e] > 0 /\ call.mtime[e] < Now - call.days_old
            purged == {e \in FolderEntries :
                          e[1] = "marker" /\ e[2] \in TerminalStates /\ old(e)}
        IN  /\ \A e \in purged : call.after[e] = 0
            /\ \A e \in FolderEntries \ purged : call.after[e] = call.mtime[e]
            /\ call.cleaned_count = Cardinality(purged)

\* C29: for every path the handler calls its callback at most once.
C29_CallbackAtMostOnce ==
    \A f \in Files : callback_count[f] <= 1

\* C30: every armed timer that has not fired is the one stored in
\* file_timers for its path, so the next event can cancel it; the entry of a
\* path, when present, belongs to the most recently armed timer of the path.
C30_ArmedTimerIsRegistered ==
    /\ \A t \in Timers :
           timers[t].st = "armed" => file_timers[timers[t].path] = t
    /\ \A f \in Files :
           file_timers[f] # 0 =>
               /\ timers[file_timers[f]].path = f
               /\ \A u \in Timers : timers[u].path = f => u <= file_timers[f]

\* C31: after stop_scanning has returned no file callback is invoked and no
\* file is handed to processing: timers armed before the stop produce no
\* work afterwards.
C31_NoWorkAfterStop ==
    [][folder_watcher = "None" =>
          /\ callback_count' = callback_count
          /\ handed' = handed]_vars

\* C32: the three implementations of target derivation return the same
\* target list, in the same order, for every folder type and every filename.
C32_DerivationsAgree ==
    (call.op = "derivations" /\ call.stage = "returned") =>
        /\ call.scan = call.single
        /\ call.single = call.watcher

C32_Witness ==
    /\ call.op = "derivations"
    /\ call.stage = "returned"
    /\ call.folder_type = "cloudflare"
    /\ call.dir = <<"0", "0", "1">>
    /\ call.filename = <<"a">>
    /\ call.scan = <<"cloudflare", "facebook">>
    /\ call.watcher = <<"cloudflare", "facebook">>

\* C33: every run started by start_uploads ends with is_running false and
\* executor None and with exactly one 'complete' event emitted for it,
\* whether the queue was empty, all items finished, or abort_all was called
\* during the run; and is_running is true only while the thread of some run
\* is active.
C33_RunEndsCleanWithOneComplete ==
    [][/\ \A r \in Runs :
              (rpc[r] = "join" /\ rpc'[r] = "done") =>
                  /\ is_running' = FALSE
                  /\ executor' = 0
                  /\ complete'[r] = 1
       /\ is_running' => \E r \in Runs : rpc'[r] \in {"drain", "submit", "join"}]_vars

====
